---- MODULE Spec2Model ----
(***************************************************************************)
(* Waterline value normalization: normalizeVsAttribute (filter values),    *)
(* normalizeValueToSet (values to write) and the model method validate().  *)
(* The functions are stateless; the state of the model is the last call    *)
(* made (operation and arguments) and its outcome (return value or thrown  *)
(* error).                                                                 *)
(***************************************************************************)
EXTENDS Integers, Sequences, FiniteSets, TLC

VARIABLES lastOp, lastArgs, outcome

vars == <<lastOp, lastArgs, outcome>>

(***************************************************************************)
(* JavaScript values.  Every value is a record with the same three fields: *)
(* t is the runtime type, s the text of a primitive, a the items of an     *)
(* array.  Numbers are kept by their decimal literal, so the number 1 and  *)
(* the string '1' are different values.                                    *)
(***************************************************************************)
Val(t, s, a) == [t |-> t, s |-> s, a |-> a]

Undefined == Val("undefined", "", <<>>)

Null == Val("null", "", <<>>)

Str(s) == Val("string", s, <<>>)

Num(s) == Val("number", s, <<>>)

Bool(s) == Val("boolean", s, <<>>)

Arr(items) == Val("array", "", items)

Dict(s) == Val("dictionary", s, <<>>)

\* A dictionary that contains itself, and a function: neither is JSON.
Circular == Val("circular", "", <<>>)

Fn == Val("function", "", <<>>)

\* Longest array among the values tried.
MaxArrayLen == 2

NumberLiterals == {"0", "1", "2", "1.5"}

IntegerLiterals == {"0", "1", "2"}

BooleanLiterals == {"true", "false"}

\* Items the arrays are built from.
Items == {Num("1"), Str("2"), Num("1.5")}

SeqsUpTo(S, n) == UNION {[1..k -> S] : k \in 0..n}

Arrays == {Arr(items) : items \in SeqsUpTo(Items, MaxArrayLen)}

Scalars ==
  {Null, Str(""), Str("abc"), Str("1"), Str("1.5"), Str("true"),
   Num("0"), Num("1"), Num("2"), Num("1.5"), Bool("true"), Bool("false")}

Values ==
  {Undefined} \cup Scalars \cup Arrays
    \cup {Dict("{a:1}"), Circular, Fn, Arr(<<Fn>>), Arr(<<Num("1"), Null>>)}

(***************************************************************************)
(* The ontology: the models registered with the ORM.  An attribute         *)
(* definition has `type`, `model` and `collection` ("" when not set), the  *)
(* flags, and `validations` (the ruleset, which may be undefined).         *)
(***************************************************************************)
NoRuleset == [defined |-> FALSE, rules |-> <<>>]

Ruleset(rules) == [defined |-> TRUE, rules |-> rules]

AttrDef(type, model, collection, required, autoCreatedAt, autoUpdatedAt, validations) ==
  [type |-> type, model |-> model, collection |-> collection,
   required |-> required, autoCreatedAt |-> autoCreatedAt,
   autoUpdatedAt |-> autoUpdatedAt, validations |-> validations]

Plain(type, required, validations) ==
  AttrDef(type, "", "", required, FALSE, FALSE, validations)

UserAttributes ==
  [n \in {"id", "name", "age", "nickname", "active", "meta", "blob",
          "favorite", "pets", "createdAt", "updatedAt"} |->
     CASE n = "id" -> Plain("number", TRUE, NoRuleset)
       [] n = "name" -> Plain("string", TRUE, Ruleset(<<"minLength">>))
       [] n = "age" -> Plain("number", FALSE, Ruleset(<<"isInteger", "max">>))
       [] n = "nickname" -> Plain("string", FALSE, NoRuleset)
       [] n = "active" -> Plain("boolean", FALSE, Ruleset(<<>>))
       [] n = "meta" -> Plain("json", FALSE, Ruleset(<<"isInteger">>))
       [] n = "blob" -> Plain("ref", FALSE, NoRuleset)
       [] n = "favorite" -> AttrDef("", "pet", "", FALSE, FALSE, FALSE, NoRuleset)
       [] n = "pets" -> AttrDef("", "", "pet", FALSE, FALSE, FALSE, NoRuleset)
       [] n = "createdAt" ->
            AttrDef("string", "", "", FALSE, TRUE, FALSE, Ruleset(<<"minLength">>))
       [] n = "updatedAt" ->
            AttrDef("number", "", "", FALSE, FALSE, TRUE, NoRuleset)]

PetAttributes ==
  [n \in {"id", "owner", "vet", "friends", "bornAt", "seenAt", "weight", "legs"} |->
     CASE n = "id" -> Plain("string", TRUE, NoRuleset)
       [] n = "owner" -> AttrDef("", "user", "", FALSE, FALSE, FALSE, NoRuleset)
       [] n = "vet" -> AttrDef("", "user", "", TRUE, FALSE, FALSE, NoRuleset)
       [] n = "friends" -> AttrDef("", "", "user", FALSE, FALSE, FALSE, NoRuleset)
       [] n = "bornAt" -> AttrDef("json", "", "", FALSE, TRUE, FALSE, NoRuleset)
       [] n = "seenAt" -> AttrDef("ref", "", "", FALSE, FALSE, TRUE, NoRuleset)
       [] n = "weight" -> Plain("number", TRUE, Ruleset(<<"isInteger", "max">>))
       [] n = "legs" -> Plain("number", FALSE, NoRuleset)]

\* A model whose attribute `ghost` has neither type, model nor collection,
\* and whose primary key declares a ruleset.
LegacyAttributes ==
  [n \in {"key", "ghost"} |->
     CASE n = "key" -> Plain("string", TRUE, Ruleset(<<"max">>))
       [] n = "ghost" -> Plain("", FALSE, NoRuleset)]

\* A model whose primary key `uid` has neither type, model nor collection.
RelicAttributes ==
  [n \in {"uid"} |-> Plain("", TRUE, NoRuleset)]

\* A model whose `hasSchema` flag was never derived.
BrokenAttributes ==
  [n \in {"id", "name"} |->
     CASE n = "id" -> Plain("number", TRUE, NoRuleset)
       [] n = "name" -> Plain("string", FALSE, NoRuleset)]

ORM ==
  [i \in {"user", "pet", "legacy", "relic", "broken"} |->
     CASE i = "user" ->
            [identity |-> "user", hasSchema |-> "true", primaryKey |-> "id",
             attributes |-> UserAttributes]
       [] i = "pet" ->
            [identity |-> "pet", hasSchema |-> "false", primaryKey |-> "id",
             attributes |-> PetAttributes]
       [] i = "legacy" ->
            [identity |-> "legacy", hasSchema |-> "false", primaryKey |-> "key",
             attributes |-> LegacyAttributes]
       [] i = "relic" ->
            [identity |-> "relic", hasSchema |-> "true", primaryKey |-> "uid",
             attributes |-> RelicAttributes]
       [] i = "broken" ->
            [identity |-> "broken", hasSchema |-> "undefined", primaryKey |-> "id",
             attributes |-> BrokenAttributes]]

\* Identities tried as `modelIdentity`; "nomodel" is not registered.
Identities == DOMAIN ORM \cup {"nomodel"}

\* Names tried as attribute names of a model: the names it declares, one it
\* does not declare, one that is not a valid attribute name, and the empty
\* string.
AttrNames(modelIdentity) ==
  (IF modelIdentity \in DOMAIN ORM THEN DOMAIN ORM[modelIdentity].attributes ELSE {"id"})
    \cup {"extra", "not a name", ""}

\* The `allowCollectionAttrs` argument: true, false or omitted.
AllowFlags == {"true", "false", "undefined"}

Truthy(flag) == flag = "true"

(***************************************************************************)
(* Collaborators: the ontology lookups, the type validator (rttc), the     *)
(* primary key normalizers, the attribute name check and the rule          *)
(* validator (anchor).  A collaborator returns [ok, value, code]: value is *)
(* the result when ok, code the error code when not.                       *)
(***************************************************************************)
Return(v) == [ok |-> TRUE, value |-> v, code |-> ""]

Throw(code) == [ok |-> FALSE, value |-> Undefined, code |-> code]

NoModel ==
  [identity |-> "", hasSchema |-> "undefined", primaryKey |-> "",
   attributes |-> [n \in {} |-> Plain("", FALSE, NoRuleset)]]

NoAttrDef == Plain("", FALSE, NoRuleset)

getModel(modelIdentity, orm) ==
  IF modelIdentity \in DOMAIN orm
    THEN [ok |-> TRUE, model |-> orm[modelIdentity], code |-> ""]
    ELSE [ok |-> FALSE, model |-> NoModel, code |-> "E_MODEL_NOT_REGISTERED"]

getAttribute(attrName, modelIdentity, orm) ==
  IF modelIdentity \notin DOMAIN orm
    THEN [ok |-> FALSE, def |-> NoAttrDef, code |-> "E_MODEL_NOT_REGISTERED"]
    ELSE IF attrName \in DOMAIN orm[modelIdentity].attributes
      THEN [ok |-> TRUE, def |-> orm[modelIdentity].attributes[attrName], code |-> ""]
      ELSE [ok |-> FALSE, def |-> NoAttrDef, code |-> "E_ATTR_NOT_REGISTERED"]

isValidAttributeName(attrName) == attrName \notin {"", "not a name"}

JsonCompatibleItem(v) ==
  v.t \in {"null", "string", "number", "boolean", "dictionary"}

JsonCompatible(v) ==
  IF v.t = "array"
    THEN \A i \in 1..Len(v.a) : JsonCompatibleItem(v.a[i])
    ELSE JsonCompatibleItem(v)

\* rttc.validate(type, value): loose validation, with light coercion.
rttc_validate(type, value) ==
  CASE type = "string" ->
         IF value.t = "string" THEN Return(value)
         ELSE IF value.t \in {"number", "boolean"} THEN Return(Str(value.s))
         ELSE Throw("E_INVALID")
    [] type = "number" ->
         IF value.t = "number" THEN Return(value)
         ELSE IF value.t = "string" /\ value.s \in NumberLiterals THEN Return(Num(value.s))
         ELSE IF value = Bool("true") THEN Return(Num("1"))
         ELSE IF value = Bool("false") THEN Return(Num("0"))
         ELSE Throw("E_INVALID")
    [] type = "boolean" ->
         IF value.t = "boolean" THEN Return(value)
         ELSE IF value.t = "string" /\ value.s \in BooleanLiterals THEN Return(Bool(value.s))
         ELSE IF value = Num("1") THEN Return(Bool("true"))
         ELSE IF value = Num("0") THEN Return(Bool("false"))
         ELSE Throw("E_INVALID")
    [] type = "json" ->
         IF JsonCompatible(value) THEN Return(value) ELSE Throw("E_INVALID")
    [] type = "ref" ->
         IF value.t # "undefined" THEN Return(value) ELSE Throw("E_INVALID")
    [] OTHER -> Throw("E_UNKNOWN_TYPE")

\* normalizePkValue(pkValue, expectedPkType): a whole number, or a non-empty
\* string; a numeric string stands for a number key and a whole number for a
\* string key.
normalizePkValue(pkValue, expectedPkType) ==
  CASE expectedPkType = "number" ->
         IF pkValue.t = "number" /\ pkValue.s \in IntegerLiterals THEN Return(pkValue)
         ELSE IF pkValue.t = "string" /\ pkValue.s \in IntegerLiterals THEN Return(Num(pkValue.s))
         ELSE Throw("E_INVALID_PK_VALUE")
    [] expectedPkType = "string" ->
         IF pkValue.t = "string" /\ pkValue.s # "" THEN Return(pkValue)
         ELSE IF pkValue.t = "number" /\ pkValue.s \in IntegerLiterals THEN Return(Str(pkValue.s))
         ELSE Throw("E_INVALID_PK_VALUE")
    [] OTHER -> Throw("AssertionError")

\* normalizePkValues(pkValues, expectedPkType): every item of the array as a
\* primary key value; fails on the first item that is not one.
normalizePkValues(pkValues, expectedPkType) ==
  IF expectedPkType \notin {"number", "string"} THEN Throw("AssertionError")
  ELSE IF pkValues.t # "array" THEN Throw("E_INVALID_PK_VALUE")
  ELSE IF \E i \in 1..Len(pkValues.a) : ~normalizePkValue(pkValues.a[i], expectedPkType).ok
    THEN Throw("E_INVALID_PK_VALUE")
  ELSE Return(Arr([i \in 1..Len(pkValues.a) |->
                     normalizePkValue(pkValues.a[i], expectedPkType).value]))

\* The rules of a ruleset, and when a value violates one.
RuleNames == {"minLength", "isInteger", "max"}

ViolatesRule(rule, value) ==
  CASE rule = "minLength" -> ~(value.t = "string" /\ value.s # "")
    [] rule = "isInteger" -> ~(value.t = "number" /\ value.s \in IntegerLiterals)
    [] rule = "max" -> ~(value.t = "number" /\ value.s \in {"0", "1"})
    [] OTHER -> FALSE

\* anchor(value, ruleset): the list of the violated rules, in ruleset order.
anchor(value, ruleset) ==
  LET violated == SelectSeq(ruleset.rules, LAMBDA r : ViolatesRule(r, value))
  IN  [i \in 1..Len(violated) |-> [rule |-> violated[i], message |-> violated[i]]]

(***************************************************************************)
(* Outcome of a call: kind is "ok" or the code of the thrown error, value  *)
(* the returned value, message which error message was built,              *)
(* ruleViolations the list carried by E_VIOLATES_RULES, and consulted the  *)
(* collaborators that were called on the way.                              *)
(***************************************************************************)
Ok(value, consulted) ==
  [kind |-> "ok", value |-> value, message |-> "", ruleViolations |-> <<>>,
   consulted |-> consulted]

Fail(kind, message, consulted) ==
  [kind |-> kind, value |-> Undefined, message |-> message, ruleViolations |-> <<>>,
   consulted |-> consulted]

FailRules(ruleViolations, consulted) ==
  [kind |-> "E_VIOLATES_RULES", value |-> Undefined, message |-> "violated rules",
   ruleViolations |-> ruleViolations, consulted |-> consulted]

\* The type of the primary key of the model an association points to.
associatedPkType(otherIdentity, orm) ==
  getAttribute(getModel(otherIdentity, orm).model.primaryKey, otherIdentity, orm).def.type

(***************************************************************************)
(* normalizeVsAttribute(): a value used as a filter.                       *)
(***************************************************************************)
\* The attribute is not recognized: the value is validated as json.
vsUnrecognizedAttribute(value) ==
  LET r == rttc_validate("json", value)
  IN  IF r.ok THEN Ok(r.value, {"rttc.validate"})
      ELSE IF r.code = "E_INVALID"
        THEN Fail("E_VALUE_NOT_USABLE", "not JSON-compatible", {"rttc.validate"})
        ELSE Fail(r.code, "", {"rttc.validate"})

\* vsSingularAssociation that normalizes the value as a primary key value.
vsSingularAssociation_UsesPkCoercer(value, attrDef, orm) ==
  LET r == normalizePkValue(value, associatedPkType(attrDef.model, orm))
  IN  IF r.ok THEN Ok(r.value, {"normalizePkValue"})
      ELSE IF r.code = "E_INVALID_PK_VALUE"
        THEN Fail("E_VALUE_NOT_USABLE", "does not match the associated pk type",
                  {"normalizePkValue"})
        ELSE Fail(r.code, "", {"normalizePkValue"})

\* The attribute is a singular association.
vsSingularAssociation(value, attrDef, orm) ==
  LET r == rttc_validate(associatedPkType(attrDef.model, orm), value)
  IN  IF r.ok THEN Ok(r.value, {"rttc.validate"})
      ELSE IF r.code = "E_INVALID"
        THEN Fail("E_VALUE_NOT_USABLE", "does not match the associated pk type",
                  {"rttc.validate"})
        ELSE Fail(r.code, "", {"rttc.validate"})

\* vsMiscellaneousAttribute that takes a missing type for json.
vsMiscellaneousAttribute_DefaultsToJson(value, attrDef) ==
  LET r == rttc_validate(IF attrDef.type = "" THEN "json" ELSE attrDef.type, value)
  IN  IF r.ok THEN Ok(r.value, {"rttc.validate"})
      ELSE IF r.code = "E_INVALID"
        THEN Fail("E_VALUE_NOT_USABLE", "does not match the declared type",
                  {"rttc.validate"})
        ELSE Fail(r.code, "", {"rttc.validate"})

\* The attribute is the primary key or a miscellaneous attribute.
vsMiscellaneousAttribute(value, attrDef) ==
  IF attrDef.type = "" THEN Fail("AssertionError", "neither type, model nor collection", {})
  ELSE
    LET r == rttc_validate(attrDef.type, value)
    IN  IF r.ok THEN Ok(r.value, {"rttc.validate"})
        ELSE IF r.code = "E_INVALID"
          THEN Fail("E_VALUE_NOT_USABLE", "does not match the declared type",
                    {"rttc.validate"})
          ELSE Fail(r.code, "", {"rttc.validate"})

\* normalizeVsAttribute() that accepts null before it looks at the attribute.
normalizeVsAttribute_NullFirst(value, attrName, modelIdentity, orm) ==
  IF value = Undefined THEN Fail("AssertionError", "no value", {})
  ELSE IF ~getModel(modelIdentity, orm).ok
    THEN Fail(getModel(modelIdentity, orm).code, "", {})
  ELSE
    LET WLModel == getModel(modelIdentity, orm).model
        found == attrName \in DOMAIN WLModel.attributes
        attrDef == IF found THEN WLModel.attributes[attrName] ELSE NoAttrDef
    IN  IF value = Null THEN Ok(value, {})
        ELSE IF found /\ attrDef.collection # ""
          THEN Fail("AssertionError", "plural association", {})
        ELSE IF ~found THEN vsUnrecognizedAttribute(value)
        ELSE IF attrDef.model # "" THEN vsSingularAssociation(value, attrDef, orm)
        ELSE vsMiscellaneousAttribute(value, attrDef)

\* normalizeVsAttribute() that refuses an unrecognized attribute when the
\* model is `schema: true`.
normalizeVsAttribute_StrictSchema(value, attrName, modelIdentity, orm) ==
  IF value = Undefined THEN Fail("AssertionError", "no value", {})
  ELSE IF ~getModel(modelIdentity, orm).ok
    THEN Fail(getModel(modelIdentity, orm).code, "", {})
  ELSE
    LET WLModel == getModel(modelIdentity, orm).model
        found == attrName \in DOMAIN WLModel.attributes
        attrDef == IF found THEN WLModel.attributes[attrName] ELSE NoAttrDef
    IN  IF found /\ attrDef.collection # ""
          THEN Fail("AssertionError", "plural association", {})
        ELSE IF value = Null THEN Ok(value, {})
        ELSE IF ~found
          THEN IF WLModel.hasSchema = "true"
                 THEN Fail("E_VALUE_NOT_USABLE", "unrecognized attribute", {})
                 ELSE vsUnrecognizedAttribute(value)
        ELSE IF attrDef.model # "" THEN vsSingularAssociation(value, attrDef, orm)
        ELSE vsMiscellaneousAttribute(value, attrDef)

\* normalizeVsAttribute() that validates null like any other value.
normalizeVsAttribute_NullValidated(value, attrName, modelIdentity, orm) ==
  IF value = Undefined THEN Fail("AssertionError", "no value", {})
  ELSE IF ~getModel(modelIdentity, orm).ok
    THEN Fail(getModel(modelIdentity, orm).code, "", {})
  ELSE
    LET WLModel == getModel(modelIdentity, orm).model
        found == attrName \in DOMAIN WLModel.attributes
        attrDef == IF found THEN WLModel.attributes[attrName] ELSE NoAttrDef
    IN  IF found /\ attrDef.collection # ""
          THEN Fail("AssertionError", "plural association", {})
        ELSE IF ~found THEN vsUnrecognizedAttribute(value)
        ELSE IF attrDef.model # "" THEN vsSingularAssociation(value, attrDef, orm)
        ELSE vsMiscellaneousAttribute(value, attrDef)

normalizeVsAttribute(value, attrName, modelIdentity, orm) ==
  IF value = Undefined THEN Fail("AssertionError", "no value", {})
  ELSE IF ~getModel(modelIdentity, orm).ok
    THEN Fail(getModel(modelIdentity, orm).code, "", {})
  ELSE
    LET WLModel == getModel(modelIdentity, orm).model
        found == attrName \in DOMAIN WLModel.attributes
        attrDef == IF found THEN WLModel.attributes[attrName] ELSE NoAttrDef
    IN  IF found /\ attrDef.collection # ""
          THEN Fail("AssertionError", "plural association", {})
        ELSE IF value = Null THEN Ok(value, {})
        ELSE IF ~found THEN vsUnrecognizedAttribute(value)
        ELSE IF attrDef.model # "" THEN vsSingularAssociation(value, attrDef, orm)
        ELSE vsMiscellaneousAttribute(value, attrDef)

(***************************************************************************)
(* normalizeValueToSet(): a value to write.                                *)
(***************************************************************************)
\* setUnrecognizedAttribute that validates the value as a ref.
setUnrecognizedAttribute_AsRef(value) ==
  LET r == rttc_validate("ref", value)
  IN  IF r.ok THEN Ok(r.value, {"rttc.validate"})
      ELSE Fail(r.code, "type mismatch", {"rttc.validate"})

\* No attribute definition (the model is `schema: false`): validate as json.
setUnrecognizedAttribute(value) ==
  LET r == rttc_validate("json", value)
  IN  IF r.ok THEN Ok(r.value, {"rttc.validate"})
      ELSE Fail(r.code, "type mismatch", {"rttc.validate"})

\* setPrimaryKeyAttribute that normalizes a number as a string key and
\* anything else as a number key.
setPrimaryKeyAttribute_SwappedTypes(value, correspondingAttrDef) ==
  LET r == normalizePkValue(value, IF value.t = "number" THEN "string" ELSE "number")
  IN  IF r.ok THEN Ok(r.value, {"normalizePkValue"})
      ELSE IF r.code = "E_INVALID_PK_VALUE"
        THEN Fail("E_HIGHLY_IRREGULAR", "invalid primary key value", {"normalizePkValue"})
        ELSE Fail(r.code, "", {"normalizePkValue"})

\* setPrimaryKeyAttribute that accepts null.
setPrimaryKeyAttribute_NullAllowed(value, correspondingAttrDef) ==
  LET r == normalizePkValue(value, correspondingAttrDef.type)
  IN  IF value = Null \/ r.ok THEN Ok(IF value = Null THEN value ELSE r.value, {"normalizePkValue"})
      ELSE IF r.code = "E_INVALID_PK_VALUE"
        THEN Fail("E_HIGHLY_IRREGULAR", "invalid primary key value", {"normalizePkValue"})
        ELSE Fail(r.code, "", {"normalizePkValue"})

\* The attribute is the primary key of the model.
setPrimaryKeyAttribute(value, correspondingAttrDef) ==
  LET r == normalizePkValue(value, correspondingAttrDef.type)
  IN  IF r.ok THEN Ok(r.value, {"normalizePkValue"})
      ELSE IF r.code = "E_INVALID_PK_VALUE"
        THEN Fail("E_HIGHLY_IRREGULAR", "invalid primary key value", {"normalizePkValue"})
        ELSE Fail(r.code, "", {"normalizePkValue"})

\* setPluralAssociation that takes every associated primary key for a number.
setPluralAssociation_NumberKeys(value, correspondingAttrDef, orm, allowCollectionAttrs) ==
  IF ~Truthy(allowCollectionAttrs)
    THEN Fail("E_HIGHLY_IRREGULAR", "collection not allowed", {})
  ELSE
    LET r == normalizePkValues(value, "number")
    IN  IF r.ok THEN Ok(r.value, {"normalizePkValues"})
        ELSE IF r.code = "E_INVALID_PK_VALUE"
          THEN Fail("E_HIGHLY_IRREGULAR", "not an array of ids", {"normalizePkValues"})
          ELSE Fail(r.code, "", {"normalizePkValues"})

\* setPluralAssociation that does not look at allowCollectionAttrs.
setPluralAssociation_NoGate(value, correspondingAttrDef, orm, allowCollectionAttrs) ==
  LET r == normalizePkValues(value, associatedPkType(correspondingAttrDef.collection, orm))
  IN  IF r.ok THEN Ok(r.value, {"normalizePkValues"})
      ELSE IF r.code = "E_INVALID_PK_VALUE"
        THEN Fail("E_HIGHLY_IRREGULAR", "not an array of ids", {"normalizePkValues"})
        ELSE Fail(r.code, "", {"normalizePkValues"})

\* The attribute is a plural association.
setPluralAssociation(value, correspondingAttrDef, orm, allowCollectionAttrs) ==
  IF ~Truthy(allowCollectionAttrs)
    THEN Fail("E_HIGHLY_IRREGULAR", "collection not allowed", {})
  ELSE
    LET r == normalizePkValues(value, associatedPkType(correspondingAttrDef.collection, orm))
    IN  IF r.ok THEN Ok(r.value, {"normalizePkValues"})
        ELSE IF r.code = "E_INVALID_PK_VALUE"
          THEN Fail("E_HIGHLY_IRREGULAR", "not an array of ids", {"normalizePkValues"})
          ELSE Fail(r.code, "", {"normalizePkValues"})

\* setSingularAssociation that allows null whether required or not.
setSingularAssociation_IgnoresRequired(value, correspondingAttrDef, orm) ==
  IF value = Null THEN Ok(value, {})
  ELSE
    LET r == normalizePkValue(value, associatedPkType(correspondingAttrDef.model, orm))
    IN  IF r.ok THEN Ok(r.value, {"normalizePkValue"})
        ELSE IF r.code = "E_INVALID_PK_VALUE"
          THEN Fail("E_HIGHLY_IRREGULAR", "not an id or null", {"normalizePkValue"})
          ELSE Fail(r.code, "", {"normalizePkValue"})

\* The attribute is a singular association.
setSingularAssociation(value, correspondingAttrDef, orm) ==
  IF value = Null
    THEN IF correspondingAttrDef.required
           THEN Fail("E_HIGHLY_IRREGULAR", "null for a required association", {})
           ELSE Ok(value, {})
  ELSE
    LET r == normalizePkValue(value, associatedPkType(correspondingAttrDef.model, orm))
    IN  IF r.ok THEN Ok(r.value, {"normalizePkValue"})
        ELSE IF r.code = "E_INVALID_PK_VALUE"
          THEN Fail("E_HIGHLY_IRREGULAR", "not an id or null", {"normalizePkValue"})
          ELSE Fail(r.code, "", {"normalizePkValue"})

\* The high-level validation rules, applied to the validated value.
checkForRuleViolations(value, correspondingAttrDef) ==
  LET ruleset == correspondingAttrDef.validations
      doCheckForRuleViolations == value # Null /\ ruleset.defined
  IN  IF ~doCheckForRuleViolations THEN Ok(value, {"rttc.validate"})
      ELSE LET ruleViolations == anchor(value, ruleset)
           IN  IF Len(ruleViolations) > 0
                 THEN FailRules(ruleViolations, {"rttc.validate", "anchor"})
                 ELSE Ok(value, {"rttc.validate", "anchor"})

\* setMiscellaneousAttribute without the check for '' on a timestamp.
setMiscellaneousAttribute_NoTimestampGuard(value, correspondingAttrDef) ==
  LET isProvidingNullForIncompatibleOptionalAttr ==
        /\ value = Null
        /\ correspondingAttrDef.type # "json"
        /\ correspondingAttrDef.type # "ref"
        /\ ~correspondingAttrDef.required
  IN  IF correspondingAttrDef.type = ""
        THEN Fail("AssertionError", "neither type, model nor collection", {})
      ELSE IF isProvidingNullForIncompatibleOptionalAttr
        THEN Fail("E_INVALID", "null not allowed", {})
      ELSE
        LET r == rttc_validate(correspondingAttrDef.type, value)
        IN  IF ~r.ok THEN Fail(r.code, "type mismatch", {"rttc.validate"})
            ELSE checkForRuleViolations(r.value, correspondingAttrDef)

\* setMiscellaneousAttribute that checks the rules on the value as provided,
\* not as validated.
setMiscellaneousAttribute_RulesOnRawValue(value, correspondingAttrDef) ==
  LET isProvidingNullForIncompatibleOptionalAttr ==
        /\ value = Null
        /\ correspondingAttrDef.type # "json"
        /\ correspondingAttrDef.type # "ref"
        /\ ~correspondingAttrDef.required
  IN  IF correspondingAttrDef.type = ""
        THEN Fail("AssertionError", "neither type, model nor collection", {})
      ELSE IF /\ value = Str("")
              /\ (correspondingAttrDef.autoCreatedAt \/ correspondingAttrDef.autoUpdatedAt)
        THEN Fail("E_HIGHLY_IRREGULAR", "empty string for a timestamp", {})
      ELSE IF isProvidingNullForIncompatibleOptionalAttr
        THEN Fail("E_INVALID", "null not allowed", {})
      ELSE
        LET r == rttc_validate(correspondingAttrDef.type, value)
        IN  IF ~r.ok THEN Fail(r.code, "type mismatch", {"rttc.validate"})
            ELSE checkForRuleViolations(value, correspondingAttrDef)

\* The attribute is a miscellaneous attribute: neither an association nor
\* the primary key.
setMiscellaneousAttribute(value, correspondingAttrDef) ==
  LET isProvidingNullForIncompatibleOptionalAttr ==
        /\ value = Null
        /\ correspondingAttrDef.type # "json"
        /\ correspondingAttrDef.type # "ref"
        /\ ~correspondingAttrDef.required
  IN  IF correspondingAttrDef.type = ""
        THEN Fail("AssertionError", "neither type, model nor collection", {})
      ELSE IF /\ value = Str("")
              /\ (correspondingAttrDef.autoCreatedAt \/ correspondingAttrDef.autoUpdatedAt)
        THEN Fail("E_HIGHLY_IRREGULAR", "empty string for a timestamp", {})
      ELSE IF isProvidingNullForIncompatibleOptionalAttr
        THEN Fail("E_INVALID", "null not allowed", {})
      ELSE
        LET r == rttc_validate(correspondingAttrDef.type, value)
        IN  IF ~r.ok THEN Fail(r.code, "type mismatch", {"rttc.validate"})
            ELSE checkForRuleViolations(r.value, correspondingAttrDef)

\* checkAttributeName that lets an unrecognized name through when the model
\* is `schema: true`.
checkAttributeName_NoStrictCheck(WLModel, found, supposedAttrName) ==
  IF WLModel.hasSchema = "true" THEN Ok(Undefined, {})
  ELSE IF WLModel.hasSchema = "false"
    THEN IF ~isValidAttributeName(supposedAttrName)
           THEN Fail("E_HIGHLY_IRREGULAR", "not a valid attribute name", {})
           ELSE Ok(Undefined, {})
  ELSE Fail("ConsistencyViolation", "hasSchema is neither true nor false", {})

\* The check of the attribute name against the model's `hasSchema` flag:
\* the error it throws, or "ok".
checkAttributeName(WLModel, found, supposedAttrName) ==
  IF WLModel.hasSchema = "true"
    THEN IF ~found
           THEN Fail("E_SHOULD_BE_IGNORED", "unrecognized attribute", {})
           ELSE Ok(Undefined, {})
  ELSE IF WLModel.hasSchema = "false"
    THEN IF ~isValidAttributeName(supposedAttrName)
           THEN Fail("E_HIGHLY_IRREGULAR", "not a valid attribute name", {})
           ELSE Ok(Undefined, {})
  ELSE Fail("ConsistencyViolation", "hasSchema is neither true nor false", {})

\* checkValue that looks at the primary key after the other shapes.
checkValue_PrimaryKeyLast(value, supposedAttrName, WLModel, found, correspondingAttrDef, orm, allowCollectionAttrs) ==
  IF value = Undefined
    THEN Fail("E_SHOULD_BE_IGNORED", "undefined value", {})
  ELSE IF ~found THEN setUnrecognizedAttribute(value)
  ELSE IF correspondingAttrDef.collection # ""
    THEN setPluralAssociation(value, correspondingAttrDef, orm, allowCollectionAttrs)
  ELSE IF correspondingAttrDef.model # ""
    THEN setSingularAssociation(value, correspondingAttrDef, orm)
  ELSE IF correspondingAttrDef.type # ""
    THEN setMiscellaneousAttribute(value, correspondingAttrDef)
  ELSE setPrimaryKeyAttribute(value, correspondingAttrDef)

\* checkValue that does not stop at undefined.
checkValue_UndefinedNotIgnored(value, supposedAttrName, WLModel, found, correspondingAttrDef, orm, allowCollectionAttrs) ==
  IF ~found THEN setUnrecognizedAttribute(value)
  ELSE IF WLModel.primaryKey = supposedAttrName
    THEN setPrimaryKeyAttribute(value, correspondingAttrDef)
  ELSE IF correspondingAttrDef.collection # ""
    THEN setPluralAssociation(value, correspondingAttrDef, orm, allowCollectionAttrs)
  ELSE IF correspondingAttrDef.model # ""
    THEN setSingularAssociation(value, correspondingAttrDef, orm)
  ELSE setMiscellaneousAttribute(value, correspondingAttrDef)

\* The check of the value against the attribute definition.
checkValue(value, supposedAttrName, WLModel, found, correspondingAttrDef, orm, allowCollectionAttrs) ==
  IF value = Undefined
    THEN Fail("E_SHOULD_BE_IGNORED", "undefined value", {})
  ELSE IF ~found THEN setUnrecognizedAttribute(value)
  ELSE IF WLModel.primaryKey = supposedAttrName
    THEN setPrimaryKeyAttribute(value, correspondingAttrDef)
  ELSE IF correspondingAttrDef.collection # ""
    THEN setPluralAssociation(value, correspondingAttrDef, orm, allowCollectionAttrs)
  ELSE IF correspondingAttrDef.model # ""
    THEN setSingularAssociation(value, correspondingAttrDef, orm)
  ELSE setMiscellaneousAttribute(value, correspondingAttrDef)

normalizeValueToSet(value, supposedAttrName, modelIdentity, orm, allowCollectionAttrs) ==
  IF supposedAttrName = ""
    THEN Fail("AssertionError", "supposedAttrName must be a non-empty string", {})
  ELSE IF ~getModel(modelIdentity, orm).ok
    THEN IF getModel(modelIdentity, orm).code = "E_MODEL_NOT_REGISTERED"
           THEN Fail("ConsistencyViolation", "model not registered", {})
           ELSE Fail(getModel(modelIdentity, orm).code, "", {})
  ELSE
    LET WLModel == getModel(modelIdentity, orm).model
        found == getAttribute(supposedAttrName, modelIdentity, orm).ok
        correspondingAttrDef == getAttribute(supposedAttrName, modelIdentity, orm).def
        named == checkAttributeName(WLModel, found, supposedAttrName)
    IN  IF named.kind # "ok" THEN named
        ELSE checkValue(value, supposedAttrName, WLModel, found, correspondingAttrDef,
                        orm, allowCollectionAttrs)

(***************************************************************************)
(* validate(): the model method; `this` is the model it is called on.      *)
(***************************************************************************)
\* validate() that allows values for plural associations.
validate_AllowsCollections(this, attrName, value, orm) ==
  normalizeValueToSet(value, attrName, this.identity, orm, "true")

validate(this, attrName, value, orm) ==
  normalizeValueToSet(value, attrName, this.identity, orm, "undefined")

(***************************************************************************)
(* The calls.  A call is made when no outcome is pending.                  *)
(***************************************************************************)
Args(value, attrName, modelIdentity, allowCollectionAttrs) ==
  [value |-> value, attrName |-> attrName, modelIdentity |-> modelIdentity,
   allowCollectionAttrs |-> allowCollectionAttrs]

Init ==
  /\ lastOp = "none"
  /\ lastArgs = Args(Undefined, "", "", "undefined")
  /\ outcome = Fail("none", "", {})

CallNormalizeVsAttribute ==
  \E modelIdentity \in Identities, value \in Values :
  \E attrName \in AttrNames(modelIdentity) :
    /\ lastOp = "none"
    /\ lastOp' = "normalizeVsAttribute"
    /\ lastArgs' = Args(value, attrName, modelIdentity, "undefined")
    /\ outcome' = normalizeVsAttribute(value, attrName, modelIdentity, ORM)

CallNormalizeValueToSet ==
  \E modelIdentity \in Identities, value \in Values, allowCollectionAttrs \in AllowFlags :
  \E attrName \in AttrNames(modelIdentity) :
    /\ lastOp = "none"
    /\ lastOp' = "normalizeValueToSet"
    /\ lastArgs' = Args(value, attrName, modelIdentity, allowCollectionAttrs)
    /\ outcome' = normalizeValueToSet(value, attrName, modelIdentity, ORM,
                                      allowCollectionAttrs)

CallValidate ==
  \E this \in {ORM[i] : i \in DOMAIN ORM}, value \in Values :
  \E attrName \in AttrNames(this.identity) :
    /\ lastOp = "none"
    /\ lastOp' = "validate"
    /\ lastArgs' = Args(value, attrName, this.identity, "undefined")
    /\ outcome' = validate(this, attrName, value, ORM)

\* The caller has taken the outcome; nothing is kept from one call to the next.
Done ==
  /\ lastOp # "none"
  /\ lastOp' = "none"
  /\ lastArgs' = Args(Undefined, "", "", "undefined")
  /\ outcome' = Fail("none", "", {})

Next == CallNormalizeVsAttribute \/ CallNormalizeValueToSet \/ CallValidate \/ Done

Spec == Init /\ [][Next]_vars

(***************************************************************************)
(* What the last call was about.                                           *)
(***************************************************************************)
Filtered == lastOp = "normalizeVsAttribute"

Wrote == lastOp = "normalizeValueToSet"

Registered == lastArgs.modelIdentity \in DOMAIN ORM

\* The model is registered and its `hasSchema` flag is true or false.
HasSchemaFlag ==
  Registered /\ ORM[lastArgs.modelIdentity].hasSchema \in {"true", "false"}

Declared ==
  Registered /\ lastArgs.attrName \in DOMAIN ORM[lastArgs.modelIdentity].attributes

\* A name that is not declared by the model (and is a name: not empty).
Undeclared == Registered /\ ~Declared /\ lastArgs.attrName # ""

TheAttrDef == ORM[lastArgs.modelIdentity].attributes[lastArgs.attrName]

IsPrimaryKey ==
  Declared /\ ORM[lastArgs.modelIdentity].primaryKey = lastArgs.attrName

IsPluralAssociation == Declared /\ ~IsPrimaryKey /\ TheAttrDef.collection # ""

IsSingularAssociation ==
  Declared /\ ~IsPrimaryKey /\ TheAttrDef.collection = "" /\ TheAttrDef.model # ""

IsPlainScalar ==
  /\ Declared /\ ~IsPrimaryKey
  /\ TheAttrDef.collection = "" /\ TheAttrDef.model = "" /\ TheAttrDef.type # ""

IsTimestamp ==
  IsPlainScalar /\ (TheAttrDef.autoCreatedAt \/ TheAttrDef.autoUpdatedAt)

Succeeded == outcome.kind = "ok"

PkCoercerConsulted ==
  outcome.consulted \cap {"normalizePkValue", "normalizePkValues"} # {}

(***************************************************************************)
(* C1.  Null as a filter.                                                  *)
(***************************************************************************)
\* C1 (as stated): for every registered model and every attribute shape,
\* the plural association included, the filter value null is returned as null.
C1_NullFilterEveryShape ==
  (Filtered /\ Registered /\ lastArgs.value = Null)
    => (Succeeded /\ outcome.value = Null)

\* C1 (amended): for every registered model and every attribute shape but the
\* plural association, the filter value null is returned as null.
C1_NullFilterNotPlural ==
  (Filtered /\ Registered /\ lastArgs.value = Null /\ ~IsPluralAssociation)
    => (Succeeded /\ outcome.value = Null)

C1_Witness ==
  /\ Filtered /\ lastArgs.value = Null /\ lastArgs.modelIdentity = "pet"
  /\ lastArgs.attrName = "weight" /\ Succeeded /\ outcome.value = Null

(***************************************************************************)
(* C2.  Unrecognized attribute of a `schema: true` model.                  *)
(***************************************************************************)
\* C2: on a model with hasSchema = true, writing to a name the model does not
\* declare fails E_SHOULD_BE_IGNORED, for every value (undefined and null
\* included) and every allowCollectionAttrs.
C2_StrictSchemaIgnores ==
  (Wrote /\ Undeclared /\ ORM[lastArgs.modelIdentity].hasSchema = "true")
    => outcome.kind = "E_SHOULD_BE_IGNORED"

C2_Witness ==
  /\ Wrote /\ lastArgs.modelIdentity = "user" /\ lastArgs.attrName = "extra"
  /\ lastArgs.value = Dict("{a:1}") /\ lastArgs.allowCollectionAttrs = "true"
  /\ outcome.kind = "E_SHOULD_BE_IGNORED"

(***************************************************************************)
(* C3.  Unrecognized attribute of a `schema: false` model.                 *)
(***************************************************************************)
\* C3 (as stated): on a model with hasSchema = false, writing to a name the
\* model does not declare succeeds exactly when the value is valid as json,
\* and fails E_INVALID for every other value.
C3_LooseSchemaJsonOrInvalid ==
  (Wrote /\ Undeclared /\ ORM[lastArgs.modelIdentity].hasSchema = "false")
    => /\ Succeeded <=> rttc_validate("json", lastArgs.value).ok
       /\ ~rttc_validate("json", lastArgs.value).ok => outcome.kind = "E_INVALID"

\* C3 (amended): on a model with hasSchema = false, writing a defined value
\* to an undeclared name that is a valid attribute name returns the value as
\* validated for json when it is valid as json and fails E_INVALID when not;
\* an invalid attribute name fails E_HIGHLY_IRREGULAR whatever the value, and
\* the value undefined under a valid name fails E_SHOULD_BE_IGNORED.
C3_LooseSchemaPassthrough ==
  (Wrote /\ Undeclared /\ ORM[lastArgs.modelIdentity].hasSchema = "false")
    => IF ~isValidAttributeName(lastArgs.attrName)
         THEN outcome.kind = "E_HIGHLY_IRREGULAR"
       ELSE IF lastArgs.value = Undefined
         THEN outcome.kind = "E_SHOULD_BE_IGNORED"
       ELSE IF rttc_validate("json", lastArgs.value).ok
         THEN Succeeded /\ outcome.value = rttc_validate("json", lastArgs.value).value
       ELSE outcome.kind = "E_INVALID"

C3_Witness ==
  /\ Wrote /\ lastArgs.modelIdentity = "pet" /\ lastArgs.attrName = "extra"
  /\ lastArgs.value = Arr(<<Fn>>) /\ outcome.kind = "E_INVALID"

(***************************************************************************)
(* C4.  Null for a singular association.                                   *)
(***************************************************************************)
\* C4: writing null to a singular association fails E_HIGHLY_IRREGULAR when
\* the attribute is required and returns null when it is not; the primary key
\* normalizer is not called in either case.
C4_NullSingularAssociation ==
  (Wrote /\ HasSchemaFlag /\ IsSingularAssociation /\ lastArgs.value = Null)
    => /\ IF TheAttrDef.required
            THEN outcome.kind = "E_HIGHLY_IRREGULAR"
            ELSE Succeeded /\ outcome.value = Null
       /\ ~PkCoercerConsulted

C4_Witness ==
  /\ Wrote /\ lastArgs.modelIdentity = "pet" /\ lastArgs.attrName = "vet"
  /\ lastArgs.value = Null /\ outcome.kind = "E_HIGHLY_IRREGULAR"
  /\ ~PkCoercerConsulted

(***************************************************************************)
(* C5.  Plural association when collections are not allowed.               *)
(***************************************************************************)
\* C5 (as stated): with allowCollectionAttrs false or omitted, writing to a
\* plural association fails E_HIGHLY_IRREGULAR for any value whatsoever.
C5_CollectionGateAnyValue ==
  (Wrote /\ HasSchemaFlag /\ IsPluralAssociation
     /\ ~Truthy(lastArgs.allowCollectionAttrs))
    => outcome.kind = "E_HIGHLY_IRREGULAR"

\* C5 (amended): with allowCollectionAttrs false or omitted, writing to a
\* plural association fails E_HIGHLY_IRREGULAR for any value but undefined,
\* an array of valid keys included, and fails E_SHOULD_BE_IGNORED for
\* undefined; it never returns a value.
C5_CollectionGateDefinedValue ==
  (Wrote /\ HasSchemaFlag /\ IsPluralAssociation
     /\ ~Truthy(lastArgs.allowCollectionAttrs))
    => IF lastArgs.value = Undefined
         THEN outcome.kind = "E_SHOULD_BE_IGNORED"
         ELSE outcome.kind = "E_HIGHLY_IRREGULAR"

C5_Witness ==
  /\ Wrote /\ lastArgs.modelIdentity = "pet" /\ lastArgs.attrName = "friends"
  /\ lastArgs.value = Arr(<<Num("1"), Str("2")>>)
  /\ lastArgs.allowCollectionAttrs = "undefined"
  /\ outcome.kind = "E_HIGHLY_IRREGULAR"

(***************************************************************************)
(* C6.  Plural association when collections are allowed.                   *)
(***************************************************************************)
\* The type of the primary key of the model an association points to.
TargetPkType(otherIdentity) ==
  ORM[otherIdentity].attributes[ORM[otherIdentity].primaryKey].type

\* Every item of the array is a valid key of the given type.
ArrayOfValidKeys(value, pkType) ==
  /\ value.t = "array"
  /\ \A i \in 1..Len(value.a) : normalizePkValue(value.a[i], pkType).ok

\* The array with every item normalized as a key of the given type.
ItemwiseKeys(value, pkType) ==
  Arr([i \in 1..Len(value.a) |-> normalizePkValue(value.a[i], pkType).value])

\* C6 (as stated): with allowCollectionAttrs true, writing to a plural
\* association returns the item-wise normalized keys (of the associated
\* model's primary key type) when the value is an array of valid keys, and
\* fails E_HIGHLY_IRREGULAR when the value is not an array or has an invalid
\* item.
C6_CollectionAssignmentAnyValue ==
  (Wrote /\ HasSchemaFlag /\ IsPluralAssociation
     /\ Truthy(lastArgs.allowCollectionAttrs))
    => IF ArrayOfValidKeys(lastArgs.value, TargetPkType(TheAttrDef.collection))
         THEN /\ Succeeded
              /\ outcome.value =
                   ItemwiseKeys(lastArgs.value, TargetPkType(TheAttrDef.collection))
         ELSE outcome.kind = "E_HIGHLY_IRREGULAR"

\* C6 (amended): as stated for every value but undefined; the value
\* undefined, which is not an array, fails E_SHOULD_BE_IGNORED.
C6_CollectionAssignment ==
  (Wrote /\ HasSchemaFlag /\ IsPluralAssociation
     /\ Truthy(lastArgs.allowCollectionAttrs))
    => IF lastArgs.value = Undefined
         THEN outcome.kind = "E_SHOULD_BE_IGNORED"
       ELSE IF ArrayOfValidKeys(lastArgs.value, TargetPkType(TheAttrDef.collection))
         THEN /\ Succeeded
              /\ outcome.value =
                   ItemwiseKeys(lastArgs.value, TargetPkType(TheAttrDef.collection))
         ELSE outcome.kind = "E_HIGHLY_IRREGULAR"

C6_Witness ==
  /\ Wrote /\ lastArgs.modelIdentity = "user" /\ lastArgs.attrName = "pets"
  /\ lastArgs.allowCollectionAttrs = "true"
  /\ lastArgs.value = Arr(<<Num("1"), Str("2")>>)
  /\ Succeeded /\ outcome.value = Arr(<<Str("1"), Str("2")>>)

(***************************************************************************)
(* C7.  Empty string for an auto timestamp.                                *)
(***************************************************************************)
\* C7: writing '' to an attribute flagged autoCreatedAt or autoUpdatedAt
\* fails E_HIGHLY_IRREGULAR, whatever the declared type and the ruleset.
C7_TimestampGuard ==
  (Wrote /\ HasSchemaFlag /\ IsTimestamp /\ lastArgs.value = Str(""))
    => outcome.kind = "E_HIGHLY_IRREGULAR"

C7_Witness ==
  /\ Wrote /\ lastArgs.modelIdentity = "pet" /\ lastArgs.attrName = "bornAt"
  /\ TheAttrDef.type = "json" /\ TheAttrDef.autoCreatedAt
  /\ lastArgs.value = Str("") /\ outcome.kind = "E_HIGHLY_IRREGULAR"

(***************************************************************************)
(* C8.  Rule violations.                                                   *)
(***************************************************************************)
\* The value is valid for the attribute's type, is not null once validated,
\* and violates at least one rule of the ruleset once validated.
ValidatedValueViolatesRules ==
  LET r == rttc_validate(TheAttrDef.type, lastArgs.value)
  IN  r.ok /\ r.value # Null /\ Len(anchor(r.value, TheAttrDef.validations)) > 0

\* The error carries the complete list for the validated value.
CarriesAllViolations ==
  outcome.ruleViolations =
    anchor(rttc_validate(TheAttrDef.type, lastArgs.value).value, TheAttrDef.validations)

\* C8 (as stated): writing to a plain attribute with a ruleset fails
\* E_VIOLATES_RULES exactly when the value is valid for the type, the
\* validated value is not null and the rule validator finds violations in
\* the validated value; the error carries the complete list.
C8_ViolatesRulesExactly ==
  (Wrote /\ HasSchemaFlag /\ IsPlainScalar /\ TheAttrDef.validations.defined)
    => /\ outcome.kind = "E_VIOLATES_RULES" <=> ValidatedValueViolatesRules
       /\ outcome.kind = "E_VIOLATES_RULES" => CarriesAllViolations

\* C8 (amended): as stated, except that '' written to an auto timestamp
\* fails E_HIGHLY_IRREGULAR before its type and rules are looked at.
C8_ViolatesRulesUnlessTimestampGuard ==
  (Wrote /\ HasSchemaFlag /\ IsPlainScalar /\ TheAttrDef.validations.defined)
    => IF IsTimestamp /\ lastArgs.value = Str("")
         THEN outcome.kind = "E_HIGHLY_IRREGULAR"
         ELSE /\ outcome.kind = "E_VIOLATES_RULES" <=> ValidatedValueViolatesRules
              /\ outcome.kind = "E_VIOLATES_RULES" => CarriesAllViolations

C8_Witness ==
  /\ Wrote /\ lastArgs.modelIdentity = "user" /\ lastArgs.attrName = "age"
  /\ lastArgs.value = Str("1.5") /\ outcome.kind = "E_VIOLATES_RULES"
  /\ Len(outcome.ruleViolations) = 2
  /\ "anchor" \in outcome.consulted

NullableScalar == IsPlainScalar /\ TheAttrDef.type \in {"json", "ref"}

OptionalSingularAssociation == IsSingularAssociation /\ ~TheAttrDef.required

\* C10 (as stated): writing null succeeds only to a json or ref attribute or
\* to a singular association that is not required.
C10_NullWriteOnlyJsonRefOrOptional ==
  (Wrote /\ lastArgs.value = Null /\ Succeeded)
    => (NullableScalar \/ OptionalSingularAssociation)

\* C10 (amended): writing null succeeds only to a json or ref attribute, to
\* a singular association that is not required, or to a name the model does
\* not declare when the model is `schema: false` (null is valid json).
C10_NullWriteAlsoUndeclared ==
  (Wrote /\ lastArgs.value = Null /\ Succeeded)
    => \/ NullableScalar
       \/ OptionalSingularAssociation
       \/ (Undeclared /\ ORM[lastArgs.modelIdentity].hasSchema = "false")

C10_Witness ==
  /\ Wrote /\ lastArgs.modelIdentity = "pet" /\ lastArgs.attrName = "extra"
  /\ lastArgs.value = Null /\ Succeeded /\ outcome.value = Null

(***************************************************************************)
(* C11.  The error for null written to a typed attribute.                  *)
(***************************************************************************)
\* A plain attribute whose type is neither json nor ref.
TypedScalar == IsPlainScalar /\ TheAttrDef.type \notin {"json", "ref"}

\* The error built for null (part_000:398-418), and the one rttc.validate
\* throws (part_000:428).
NullNotAllowedError == outcome.kind = "E_INVALID" /\ outcome.message = "null not allowed"

GenericMismatchError == outcome.kind = "E_INVALID" /\ outcome.message = "type mismatch"

\* C11: writing null to a plain attribute whose type is neither json nor
\* ref, required or not, fails with the null-not-allowed error and never
\* with the generic type mismatch.  (The code builds the null-not-allowed
\* error only when the attribute is not required; for a required attribute
\* null reaches rttc.validate and fails with the generic mismatch.)
C11_NullErrorRequiredOrNot ==
  (Wrote /\ HasSchemaFlag /\ TypedScalar /\ lastArgs.value = Null)
    => (NullNotAllowedError /\ ~GenericMismatchError)

(***************************************************************************)
(* C12.  Undefined as a value to write.                                    *)
(***************************************************************************)
\* C12 (as stated): writing undefined fails E_SHOULD_BE_IGNORED on every
\* model whose hasSchema flag is true or false, for every attribute name
\* (declared or not, valid or not), shape and allowCollectionAttrs.
C12_UndefinedIgnoredEveryName ==
  (Wrote /\ HasSchemaFlag /\ lastArgs.attrName # "" /\ lastArgs.value = Undefined)
    => outcome.kind = "E_SHOULD_BE_IGNORED"

\* C12 (amended): as stated, except under a name that is not a valid
\* attribute name on a `schema: false` model, which fails
\* E_HIGHLY_IRREGULAR before the value is looked at.
C12_UndefinedIgnoredUnlessBadName ==
  (Wrote /\ HasSchemaFlag /\ lastArgs.attrName # "" /\ lastArgs.value = Undefined)
    => IF /\ ORM[lastArgs.modelIdentity].hasSchema = "false"
          /\ ~isValidAttributeName(lastArgs.attrName)
         THEN outcome.kind = "E_HIGHLY_IRREGULAR"
         ELSE outcome.kind = "E_SHOULD_BE_IGNORED"

C12_Witness ==
  /\ Wrote /\ lastArgs.modelIdentity = "pet" /\ lastArgs.attrName = "friends"
  /\ lastArgs.allowCollectionAttrs = "true" /\ lastArgs.value = Undefined
  /\ outcome.kind = "E_SHOULD_BE_IGNORED" /\ outcome.message = "undefined value"

(***************************************************************************)
(* C13.  Writing a value that was already normalized.                      *)
(***************************************************************************)
\* The attribute is the primary key or a plain attribute.
IsScalar == IsPlainScalar \/ (IsPrimaryKey /\ TheAttrDef.type # "")

\* The outcome of writing the returned value to the same attribute.
WrittenAgain ==
  normalizeValueToSet(outcome.value, lastArgs.attrName, lastArgs.modelIdentity, ORM,
                      lastArgs.allowCollectionAttrs)

\* C13: when writing a value to a scalar attribute returns w, writing w to
\* the same attribute returns w.
C13_WriteIdempotent ==
  (Wrote /\ IsScalar /\ Succeeded)
    => (WrittenAgain.kind = "ok" /\ WrittenAgain.value = outcome.value)

C13_Witness ==
  /\ Wrote /\ lastArgs.modelIdentity = "user" /\ lastArgs.attrName = "age"
  /\ lastArgs.value = Str("1") /\ Succeeded /\ outcome.value = Num("1")
  /\ WrittenAgain.value = Num("1")

(***************************************************************************)
(* C14.  An attribute with neither type, model nor collection.             *)
(***************************************************************************)
IsTypeless ==
  /\ Declared
  /\ TheAttrDef.type = "" /\ TheAttrDef.model = "" /\ TheAttrDef.collection = ""

PublicErrorKinds ==
  {"E_VALUE_NOT_USABLE", "E_SHOULD_BE_IGNORED", "E_HIGHLY_IRREGULAR", "E_INVALID",
   "E_VIOLATES_RULES"}

\* The call failed, and not with one of the public error kinds.
ConsistencyViolated == ~Succeeded /\ outcome.kind \notin PublicErrorKinds

\* C14 (as stated): a filter or a write for an attribute with neither type,
\* model nor collection fails with a consistency violation, for every value
\* (null and undefined included), also when the attribute is the primary key.
C14_TypelessAlwaysViolation ==
  ((Filtered \/ (Wrote /\ HasSchemaFlag)) /\ IsTypeless) => ConsistencyViolated

\* C14 (amended): a filter for such an attribute fails with an assertion
\* failure for every value but null (also when it is the primary key) and
\* returns null for null; a write to such an attribute that is not the
\* primary key fails with an assertion failure for every value but
\* undefined, and fails E_SHOULD_BE_IGNORED for undefined.
C14_TypelessViolationWhenTypeNeeded ==
  /\ (Filtered /\ IsTypeless)
       => IF lastArgs.value = Null
            THEN Succeeded /\ outcome.value = Null
            ELSE outcome.kind = "AssertionError"
  /\ (Wrote /\ HasSchemaFlag /\ IsTypeless /\ ~IsPrimaryKey)
       => IF lastArgs.value = Undefined
            THEN outcome.kind = "E_SHOULD_BE_IGNORED"
            ELSE outcome.kind = "AssertionError"

C14_Witness ==
  /\ Filtered /\ lastArgs.modelIdentity = "relic" /\ lastArgs.attrName = "uid"
  /\ IsTypeless /\ IsPrimaryKey /\ lastArgs.value = Dict("{a:1}")
  /\ outcome.kind = "AssertionError"

(***************************************************************************)
(* C15.  A filter value for a declared attribute.                          *)
(***************************************************************************)
\* The type a filter value is validated against: the associated model's
\* primary key type for a singular association, else the declared type.
EffectiveType ==
  IF TheAttrDef.model # "" THEN TargetPkType(TheAttrDef.model) ELSE TheAttrDef.type

\* C15: for a value that is not null and a declared attribute that is not a
\* plural association, the filter returns what rttc.validate returns for the
\* effective type, and fails E_VALUE_NOT_USABLE exactly when rttc.validate
\* reports a mismatch; the primary key normalizer is not called.
C15_FilterIsTypeValidation ==
  (Filtered /\ Declared /\ TheAttrDef.collection = "" /\ ~IsTypeless
     /\ lastArgs.value \notin {Null, Undefined})
    => LET r == rttc_validate(EffectiveType, lastArgs.value)
       IN  /\ r.ok => (Succeeded /\ outcome.value = r.value)
           /\ outcome.kind = "E_VALUE_NOT_USABLE" <=> ~r.ok
           /\ ~PkCoercerConsulted

\* A fractional number is a usable filter for an association to a model
\* with a number key, though it is not a valid key.
C15_Witness ==
  /\ Filtered /\ lastArgs.modelIdentity = "pet" /\ lastArgs.attrName = "owner"
  /\ lastArgs.value = Num("1.5")
  /\ ~normalizePkValue(lastArgs.value, TargetPkType("user")).ok
  /\ Succeeded /\ outcome.value = Num("1.5")

(***************************************************************************)
(* C16.  A value written to the primary key.                               *)
(***************************************************************************)
\* C16: writing a defined value to the primary key attribute has the outcome
\* of normalizePkValue for the declared type: its value, or
\* E_HIGHLY_IRREGULAR for an invalid key; never E_INVALID or
\* E_VIOLATES_RULES.
C16_PrimaryKeyWrite ==
  (Wrote /\ HasSchemaFlag /\ IsPrimaryKey /\ lastArgs.value # Undefined)
    => LET r == normalizePkValue(lastArgs.value, TheAttrDef.type)
       IN  /\ r.ok => (Succeeded /\ outcome.value = r.value)
           /\ r.code = "E_INVALID_PK_VALUE"
                => (outcome.kind = "E_HIGHLY_IRREGULAR"
                      /\ outcome.message = "invalid primary key value")
           /\ outcome.kind \notin {"E_INVALID", "E_VIOLATES_RULES"}
           /\ outcome.consulted = {"normalizePkValue"}

\* A key that violates the ruleset declared on the primary key is returned.
C16_Witness ==
  /\ Wrote /\ lastArgs.modelIdentity = "legacy" /\ lastArgs.attrName = "key"
  /\ lastArgs.value = Num("2") /\ TheAttrDef.validations.defined
  /\ Len(anchor(Str("2"), TheAttrDef.validations)) > 0
  /\ Succeeded /\ outcome.value = Str("2")

(***************************************************************************)
(* C17.  A filter on a plural association.                                 *)
(***************************************************************************)
\* C17: a filter on a declared plural association fails with an assertion
\* failure for every value, null included.
C17_FilterOnPluralAsserts ==
  (Filtered /\ Declared /\ TheAttrDef.collection # "")
    => outcome.kind = "AssertionError"

C17_Witness ==
  /\ Filtered /\ lastArgs.modelIdentity = "user" /\ lastArgs.attrName = "pets"
  /\ lastArgs.value = Null /\ outcome.kind = "AssertionError"
  /\ outcome.message = "plural association"

(***************************************************************************)
(* C18.  The filter and the `hasSchema` flag.                              *)
(***************************************************************************)
\* The ontology with the `hasSchema` flag of one model set to a given value.
WithHasSchema(orm, modelIdentity, flag) ==
  [i \in DOMAIN orm |->
     IF i = modelIdentity THEN [orm[i] EXCEPT !.hasSchema = flag] ELSE orm[i]]

\* C18: the outcome of a filter is the same whatever the model's hasSchema
\* flag; an unrecognized attribute of a `schema: true` model is validated as
\* json, not refused.
C18_FilterIgnoresHasSchema ==
  (Filtered /\ Registered)
    => /\ \A flag \in {"true", "false", "undefined"} :
            outcome = normalizeVsAttribute(lastArgs.value, lastArgs.attrName,
                        lastArgs.modelIdentity,
                        WithHasSchema(ORM, lastArgs.modelIdentity, flag))
       /\ (Undeclared /\ lastArgs.value \notin {Null, Undefined})
            => (Succeeded <=> rttc_validate("json", lastArgs.value).ok)

C18_Witness ==
  /\ Filtered /\ lastArgs.modelIdentity = "user" /\ lastArgs.attrName = "extra"
  /\ ORM["user"].hasSchema = "true" /\ lastArgs.value = Dict("{a:1}")
  /\ Succeeded /\ outcome.value = Dict("{a:1}")
====
